---- MODULE Spec2Model ----
(***************************************************************************)
(* A model of the Naruto Pathfinder core: the Grid (js/classes/Grid.js),   *)
(* the Node and the A* search with its timer-driven animated execution     *)
(* (js/classes/Astar.js and its speed-override variant), and the Controls   *)
(* start/stop wiring (js/ui/controls.js).                                  *)
(*                                                                         *)
(* Node objects live in a heap and are referred to by reference, as in the  *)
(* JavaScript: Grid.initializeGrid allocates fresh objects, so a reference  *)
(* held from before (Grid.startNode after a failed resize, the sets of a    *)
(* suspended search) keeps pointing at the old, detached object.            *)
(***************************************************************************)
EXTENDS Integers, Sequences, FiniteSets, TLC

VARIABLES grid, heap, astar, frames, controls, last

vars == <<grid, heap, astar, frames, controls, last>>

(***************************************************************************)
(* Bounds of the model.                                                    *)
(***************************************************************************)
\* grids of the grid-operation specification have at most this many cells
GridMaxCells == 3

(***************************************************************************)
(* JavaScript values.                                                      *)
(***************************************************************************)
\* a null or undefined object reference
null == <<>>

\* Number.POSITIVE_INFINITY, the initial g and f of a Node; arithmetic on it
\* goes through Plus and Less below
Infinity == 1000

\* a missing (undefined) numeric property: a number below every index, so that
\* "i < undefined" is false for every i and an array indexed by it is undefined
Undefined == -100

Plus(a, b) == IF a = Infinity \/ b = Infinity THEN Infinity ELSE a + b

Less(a, b) == IF a = Infinity THEN FALSE ELSE IF b = Infinity THEN TRUE ELSE a < b

\* !x for a number-or-undefined x
Falsy(x) == x = 0 \/ x = Undefined

MinOf(a, b) == IF a < b THEN a ELSE b

MaxOf(a, b) == IF a < b THEN b ELSE a

Abs(x) == IF x < 0 THEN 0 - x ELSE x

\* Math.floor(n / 4); the undefined operand gives NaN, which like every
\* negative number indexes no row
FloorQuarter(n) == IF n = Undefined THEN Undefined ELSE n \div 4

Range(s) == {s[i] : i \in DOMAIN s}

(***************************************************************************)
(* Node                                                                    *)
(***************************************************************************)
Node(row, col) ==
    [row |-> row, col |-> col,
     isWall |-> FALSE, isStart |-> FALSE, isEnd |-> FALSE,
     isVisited |-> FALSE, isPath |-> FALSE, weight |-> 1,
     g |-> Infinity, h |-> 0, f |-> Infinity, parent |-> null]

toggleWall(n) ==
    IF ~n.isStart /\ ~n.isEnd THEN [n EXCEPT !.isWall = ~n.isWall] ELSE n

\* a setAsStart that leaves the wall flag as it is
setAsStartOverWall(n) == [n EXCEPT !.isStart = TRUE, !.isEnd = FALSE]

setAsStart(n) == [n EXCEPT !.isStart = TRUE, !.isEnd = FALSE, !.isWall = FALSE]

\* a setAsEnd that leaves the wall flag as it is
setAsEndOverWall(n) == [n EXCEPT !.isEnd = TRUE, !.isStart = FALSE]

setAsEnd(n) == [n EXCEPT !.isEnd = TRUE, !.isStart = FALSE, !.isWall = FALSE]

\* a heuristic that counts every step to the end twice
calculateHeuristicDoubled(n, endNode) ==
    2 * (Abs(n.col - endNode.col) + Abs(n.row - endNode.row))

calculateHeuristic(n, endNode) ==
    Abs(n.col - endNode.col) + Abs(n.row - endNode.row)

(***************************************************************************)
(* Grid.  A world w is the grid object, the heap of Node objects and       *)
(* whether the call in progress has thrown; a method that has thrown does   *)
(* nothing more.                                                           *)
(***************************************************************************)
Cells(rows, cols) == (0 .. rows - 1) \X (0 .. cols - 1)

\* the cells of rows x cols in the order of the nested row/col loops
RECURSIVE RowMajorFrom(_, _, _)
RowMajorFrom(rows, cols, k) ==
    IF k >= rows * cols THEN <<>>
    ELSE <<(<<k \div cols, k % cols>>)>> \o RowMajorFrom(rows, cols, k + 1)

RowMajor(rows, cols) ==
    IF rows < 1 \/ cols < 1 THEN <<>> ELSE RowMajorFrom(rows, cols, 0)

FreshGen(h) ==
    IF DOMAIN h = {} THEN 0
    ELSE 1 + (CHOOSE x \in {r[1] : r \in DOMAIN h} :
                 \A y \in {r[1] : r \in DOMAIN h} : y <= x)

initializeGrid(w) ==
    IF w.threw THEN w ELSE
    LET gen == FreshGen(w.heap)
        cells == Cells(w.grid.rows, w.grid.cols)
        fresh == {<<gen, p[1], p[2]>> : p \in cells}
    IN [w EXCEPT
          !.grid.nodes = [p \in cells |-> <<gen, p[1], p[2]>>],
          !.heap = [r \in (DOMAIN w.heap) \cup fresh |->
                       IF r \in fresh THEN Node(r[2], r[3]) ELSE w.heap[r]]]

setStartNode(w, row, col) ==
    IF w.threw THEN w ELSE
    LET h1 == IF w.grid.startNode # null
              THEN [w.heap EXCEPT ![w.grid.startNode].isStart = FALSE]
              ELSE w.heap
    IN IF row \notin 0 .. (w.grid.rows - 1)
       THEN \* this.nodes[row] is undefined: indexing it throws
            [w EXCEPT !.heap = h1, !.threw = TRUE]
       ELSE IF col \notin 0 .. (w.grid.cols - 1)
       THEN \* this.nodes[row][col] is undefined: setAsStart on it throws
            [w EXCEPT !.heap = h1, !.grid.startNode = null, !.threw = TRUE]
       ELSE LET n == w.grid.nodes[<<row, col>>]
            IN [w EXCEPT !.heap = [h1 EXCEPT ![n] = setAsStart(h1[n])],
                         !.grid.startNode = n]

setEndNode(w, row, col) ==
    IF w.threw THEN w ELSE
    LET h1 == IF w.grid.endNode # null
              THEN [w.heap EXCEPT ![w.grid.endNode].isEnd = FALSE]
              ELSE w.heap
    IN IF row \notin 0 .. (w.grid.rows - 1)
       THEN [w EXCEPT !.heap = h1, !.threw = TRUE]
       ELSE IF col \notin 0 .. (w.grid.cols - 1)
       THEN [w EXCEPT !.heap = h1, !.grid.endNode = null, !.threw = TRUE]
       ELSE LET n == w.grid.nodes[<<row, col>>]
            IN [w EXCEPT !.heap = [h1 EXCEPT ![n] = setAsEnd(h1[n])],
                         !.grid.endNode = n]

setDefaultStartEnd(w) ==
    LET startRow == FloorQuarter(w.grid.rows)
        startCol == FloorQuarter(w.grid.cols)
        endRow == IF w.grid.rows = Undefined THEN Undefined
                  ELSE (3 * w.grid.rows) \div 4
        endCol == IF w.grid.cols = Undefined THEN Undefined
                  ELSE (3 * w.grid.cols) \div 4
    IN setEndNode(setStartNode(w, startRow, startCol), endRow, endCol)

\* new Grid(rows, cols) over an existing heap
Grid(rows, cols, h) ==
    setDefaultStartEnd(initializeGrid(
        [grid |-> [rows |-> rows, cols |-> cols, nodes |-> <<>>,
                   startNode |-> null, endNode |-> null,
                   mouseIsPressed |-> FALSE, currentMode |-> "wall"],
         heap |-> h, threw |-> FALSE]))

\* a reference to the node at (row, col), or null
getNode(w, row, col) ==
    IF row >= 0 /\ row < w.grid.rows /\ col >= 0 /\ col < w.grid.cols
    THEN w.grid.nodes[<<row, col>>]
    ELSE null

\* a reset that clears the wall flag along with the pathfinding fields
resetPathfindingAndWalls(w) ==
    IF w.threw THEN w ELSE
    LET here == Range(w.grid.nodes)
    IN [w EXCEPT !.heap = [r \in DOMAIN w.heap |->
          IF r \in here
          THEN [w.heap[r] EXCEPT !.isVisited = FALSE, !.isPath = FALSE,
                                 !.isWall = FALSE,
                                 !.g = Infinity, !.h = 0, !.f = Infinity,
                                 !.parent = null]
          ELSE w.heap[r]]]

\* a reset whose isVisited assignment copies isPath instead of clearing
resetPathfindingCopying(w) ==
    IF w.threw THEN w ELSE
    LET here == Range(w.grid.nodes)
    IN [w EXCEPT !.heap = [r \in DOMAIN w.heap |->
          IF r \in here
          THEN [w.heap[r] EXCEPT !.isVisited = w.heap[r].isPath,
                                 !.isPath = FALSE,
                                 !.g = Infinity, !.h = 0, !.f = Infinity,
                                 !.parent = null]
          ELSE w.heap[r]]]

resetPathfinding(w) ==
    IF w.threw THEN w ELSE
    LET here == Range(w.grid.nodes)
    IN [w EXCEPT !.heap = [r \in DOMAIN w.heap |->
          IF r \in here
          THEN [w.heap[r] EXCEPT !.isVisited = FALSE, !.isPath = FALSE,
                                 !.g = Infinity, !.h = 0, !.f = Infinity,
                                 !.parent = null]
          ELSE w.heap[r]]]

clearWalls(w) ==
    IF w.threw THEN w ELSE
    LET here == Range(w.grid.nodes)
    IN [w EXCEPT !.heap = [r \in DOMAIN w.heap |->
          IF r \in here THEN [w.heap[r] EXCEPT !.isWall = FALSE]
          ELSE w.heap[r]]]

\* render() only rebuilds DOM elements
resetGrid(w) == setDefaultStartEnd(initializeGrid(w))

resize(w, newRows, newCols) ==
    IF w.threw THEN w ELSE
    resetGrid([w EXCEPT !.grid.rows = newRows, !.grid.cols = newCols])

handleMouseDown(w, row, col) ==
    LET node == getNode(w, row, col)
    IN IF node = null THEN w
       ELSE LET w1 == [w EXCEPT !.grid.mouseIsPressed = TRUE]
            IN IF w.heap[node].isStart
               THEN [w1 EXCEPT !.grid.currentMode = "start"]
               ELSE IF w.heap[node].isEnd
               THEN [w1 EXCEPT !.grid.currentMode = "end"]
               ELSE [w1 EXCEPT !.grid.currentMode = "wall",
                               !.heap[node] = toggleWall(w.heap[node])]

\* a handleMouseEnter whose start mode does not look at isEnd and whose end
\* mode does not look at isStart
handleMouseEnterOverRole(w, row, col) ==
    IF ~w.grid.mouseIsPressed THEN w
    ELSE LET node == getNode(w, row, col)
         IN IF node = null THEN w
            ELSE LET n == w.heap[node]
                 IN CASE w.grid.currentMode = "start" ->
                           IF ~n.isWall THEN setStartNode(w, row, col) ELSE w
                      [] w.grid.currentMode = "end" ->
                           IF ~n.isWall THEN setEndNode(w, row, col) ELSE w
                      [] w.grid.currentMode = "wall" ->
                           IF ~n.isStart /\ ~n.isEnd /\ ~n.isWall
                           THEN [w EXCEPT !.heap[node].isWall = TRUE] ELSE w
                      [] OTHER -> w

handleMouseEnter(w, row, col) ==
    IF ~w.grid.mouseIsPressed THEN w
    ELSE LET node == getNode(w, row, col)
         IN IF node = null THEN w
            ELSE LET n == w.heap[node]
                 IN CASE w.grid.currentMode = "start" ->
                           IF ~n.isEnd /\ ~n.isWall
                           THEN setStartNode(w, row, col) ELSE w
                      [] w.grid.currentMode = "end" ->
                           IF ~n.isStart /\ ~n.isWall
                           THEN setEndNode(w, row, col) ELSE w
                      [] w.grid.currentMode = "wall" ->
                           IF ~n.isStart /\ ~n.isEnd /\ ~n.isWall
                           THEN [w EXCEPT !.heap[node].isWall = TRUE] ELSE w
                      [] OTHER -> w

handleMouseUp(w) ==
    [w EXCEPT !.grid.mouseIsPressed = FALSE, !.grid.currentMode = "wall"]

\* the last element of a sequence of positions, or null
LastOrNull(s) == IF Len(s) = 0 THEN null ELSE s[Len(s)]

\* the serializable object; the wall type (image 1 or 2) is left out, and a
\* position is the pair <<row, col>>
getGridData(w) ==
    LET order == RowMajor(w.grid.rows, w.grid.cols)
        at(p) == w.heap[w.grid.nodes[p]]
        IsWallAt(p) == at(p).isWall
        IsStartAt(p) == at(p).isStart
        IsEndAt(p) == at(p).isEnd
    IN [rows |-> w.grid.rows, cols |-> w.grid.cols,
        walls |-> SelectSeq(order, IsWallAt),
        startNode |-> LastOrNull(SelectSeq(order, IsStartAt)),
        endNode |-> LastOrNull(SelectSeq(order, IsEndAt))]

\* a wall restoration that stops one short of the end of gridData.walls
RECURSIVE RestoreWallsButLast(_, _, _)
RestoreWallsButLast(w, data, k) ==
    IF k >= Len(data.walls) THEN w
    ELSE LET p == data.walls[k]
             node == getNode(w, p[1], p[2])
             w1 == IF node # null /\ data.startNode # p /\ data.endNode # p
                   THEN [w EXCEPT !.heap[node].isWall = TRUE]
                   ELSE w
         IN RestoreWallsButLast(w1, data, k + 1)

\* the forEach over gridData.walls of loadGridData
RECURSIVE RestoreWalls(_, _, _)
RestoreWalls(w, data, k) ==
    IF k > Len(data.walls) THEN w
    ELSE LET p == data.walls[k]
             node == getNode(w, p[1], p[2])
             w1 == IF node # null /\ data.startNode # p /\ data.endNode # p
                   THEN [w EXCEPT !.heap[node].isWall = TRUE]
                   ELSE w
         IN RestoreWalls(w1, data, k + 1)

\* the body of the try block of loadGridData
LoadBody(w, data) ==
    LET w1 == IF data.rows # w.grid.rows \/ data.cols # w.grid.cols
              THEN resize(w, data.rows, data.cols)
              ELSE LET c == clearWalls(w)
                       c1 == IF c.grid.startNode # null
                             THEN [c EXCEPT !.heap[c.grid.startNode].isStart = FALSE,
                                            !.grid.startNode = null]
                             ELSE c
                       c2 == IF c1.grid.endNode # null
                             THEN [c1 EXCEPT !.heap[c1.grid.endNode].isEnd = FALSE,
                                             !.grid.endNode = null]
                             ELSE c1
                   IN setDefaultStartEnd(c2)
        w2 == IF w1.threw THEN w1 ELSE RestoreWalls(w1, data, 1)
        w3 == IF data.startNode # null
              THEN setStartNode(w2, data.startNode[1], data.startNode[2])
              ELSE w2
        w4 == IF data.endNode # null
              THEN setEndNode(w3, data.endNode[1], data.endNode[2])
              ELSE w3
    IN w4

\* loadGridData(gridData): the world after the call and the value returned;
\* the catch clause turns every exception into the return value false
loadGridData(w, data) ==
    LET b == LoadBody(w, data)
    IN [w |-> [b EXCEPT !.threw = FALSE], ret |-> ~b.threw]

\* Helpers.importGrid(grid, jsonData), the JSON text already parsed to data
ImportBody(w, data) ==
    IF Falsy(data.rows) \/ Falsy(data.cols)
    THEN [w EXCEPT !.threw = TRUE]
    ELSE LET w1 == IF data.rows # w.grid.rows \/ data.cols # w.grid.cols
                   THEN resize(w, data.rows, data.cols) ELSE w
             w2 == clearWalls(w1)
             w3 == IF w2.threw THEN w2
                   ELSE RestoreWalls(w2, [data EXCEPT !.startNode = null,
                                                      !.endNode = null], 1)
             w4 == IF data.startNode # null
                   THEN setStartNode(w3, data.startNode[1], data.startNode[2])
                   ELSE w3
             w5 == IF data.endNode # null
                   THEN setEndNode(w4, data.endNode[1], data.endNode[2])
                   ELSE w4
         IN w5

importGrid(w, data) ==
    LET b == ImportBody(w, data)
    IN [w |-> [b EXCEPT !.threw = FALSE], ret |-> ~b.threw]

(***************************************************************************)
(* AStar.  A search state s is the grid, the heap and the AStar object; a  *)
(* frame fr holds the locals of one findPath invocation.  Run, Expand and   *)
(* animatePath execute the code from one point up to the next await (the    *)
(* invocation is then suspended) or up to its return.                      *)
(***************************************************************************)
\* new AStar(grid); impl tells which of the two AStar sources is loaded:
\* "base" is js/classes/Astar.js, "override" the variant with overrideSpeed
AStar(impl) ==
    [openSet |-> <<>>, closedSet |-> <<>>, path |-> <<>>, visitedNodes |-> <<>>,
     isRunning |-> FALSE, animationSpeed |-> 50, nodesExplored |-> 0,
     onNodeVisited |-> null, impl |-> impl]

Includes(seq, x) == \E i \in DOMAIN seq : seq[i] = x

\* removeFromArray: splice out the first occurrence
removeFromArray(seq, x) ==
    IF ~Includes(seq, x) THEN seq
    ELSE LET i == CHOOSE k \in DOMAIN seq :
                     seq[k] = x /\ \A j \in 1 .. (k - 1) : seq[j] # x
         IN SubSeq(seq, 1, i - 1) \o SubSeq(seq, i + 1, Len(seq))

RECURSIVE LowestFrom(_, _, _, _)
LowestFrom(h, openSet, k, lowestNode) ==
    IF k > Len(openSet) THEN lowestNode
    ELSE LET node == openSet[k]
             better == \/ Less(h[node].f, h[lowestNode].f)
                       \/ (h[node].f = h[lowestNode].f /\ h[node].h < h[lowestNode].h)
         IN LowestFrom(h, openSet, k + 1, IF better THEN node ELSE lowestNode)

\* a scan that replaces the lowest node on a tie of f and h as well, so
\* that the latest of the tied nodes is taken
RECURSIVE LatestLowestFrom(_, _, _, _)
LatestLowestFrom(h, openSet, k, lowestNode) ==
    IF k > Len(openSet) THEN lowestNode
    ELSE LET node == openSet[k]
             better == \/ Less(h[node].f, h[lowestNode].f)
                       \/ (h[node].f = h[lowestNode].f /\ h[node].h <= h[lowestNode].h)
         IN LatestLowestFrom(h, openSet, k + 1,
                             IF better THEN node ELSE lowestNode)

getLatestLowestFNode(s) ==
    LatestLowestFrom(s.heap, s.astar.openSet, 1, s.astar.openSet[1])

\* a selection that takes the newest node of the open set
getNewestNode(s) == s.astar.openSet[Len(s.astar.openSet)]

getLowestFNode(s) == LowestFrom(s.heap, s.astar.openSet, 1, s.astar.openSet[1])

RECURSIVE reconstructFrom(_, _, _)
reconstructFrom(h, currentNode, path) ==
    IF currentNode = null THEN path
    ELSE reconstructFrom(h, h[currentNode].parent, <<currentNode>> \o path)

\* a reconstruction that stops at the node without parent and leaves it out
reconstructPathNoStart(h, endNode) ==
    LET path == reconstructFrom(h, endNode, <<>>)
    IN SubSeq(path, 2, Len(path))

reconstructPath(h, endNode) == reconstructFrom(h, endNode, <<>>)

Directions == << <<-1, 0>>, <<0, 1>>, <<1, 0>>, <<0, -1>> >>

isValidPosition(s, row, col) ==
    /\ <<row, col>> \in DOMAIN s.grid.nodes
    /\ ~s.heap[s.grid.nodes[<<row, col>>]].isWall

\* a neighbourhood without the last direction, left
getNeighborsNoLeft(s, node) ==
    LET n == s.heap[node]
        at(d) == <<n.row + Directions[d][1], n.col + Directions[d][2]>>
        Valid(d) == isValidPosition(s, at(d)[1], at(d)[2])
        ds == SelectSeq(<<1, 2, 3>>, Valid)
    IN [k \in DOMAIN ds |-> s.grid.nodes[at(ds[k])]]

\* node.getNeighbors(this.grid.nodes): references, in the order up, right,
\* down, left
getNeighbors(s, node) ==
    LET n == s.heap[node]
        at(d) == <<n.row + Directions[d][1], n.col + Directions[d][2]>>
        Valid(d) == isValidPosition(s, at(d)[1], at(d)[2])
        ds == SelectSeq(<<1, 2, 3, 4>>, Valid)
    IN [k \in DOMAIN ds |-> s.grid.nodes[at(ds[k])]]

\* a reset that empties the arrays and leaves the nodes as they are
resetArraysOnly(s) ==
    [s EXCEPT !.astar.openSet = <<>>, !.astar.closedSet = <<>>,
              !.astar.path = <<>>, !.astar.visitedNodes = <<>>,
              !.astar.nodesExplored = 0]

reset(s) ==
    LET w == resetPathfinding([grid |-> s.grid, heap |-> s.heap, threw |-> FALSE])
    IN [s EXCEPT !.astar.openSet = <<>>, !.astar.closedSet = <<>>,
                 !.astar.path = <<>>, !.astar.visitedNodes = <<>>,
                 !.astar.nodesExplored = 0, !.heap = w.heap]

stop(s) == [s EXCEPT !.astar.isRunning = FALSE]

Clamp(speed) == MaxOf(1, MinOf(1000, speed))

setSpeed(s, speed) ==
    [s EXCEPT !.astar.animationSpeed =
        IF s.astar.impl = "override" THEN Clamp(speed) ELSE speed]

\* the delay of an exploration step
ExploreDelay(s, fr) ==
    IF s.astar.impl = "override" THEN fr.currentSpeed ELSE s.astar.animationSpeed

\* the delay of a path-reveal step
PathDelay(s, fr) == 2 * ExploreDelay(s, fr)

\* the object findPath returns when the goal is reached
Found(s) ==
    [path |-> s.astar.path, visitedNodes |-> s.astar.visitedNodes,
     pathLength |-> Len(s.astar.path), nodesExplored |-> s.astar.nodesExplored]

Returned(s, fr, result) ==
    [s |-> s, fr |-> fr, suspended |-> FALSE, threw |-> FALSE, result |-> result]

Suspended(s, fr) ==
    [s |-> s, fr |-> fr, suspended |-> TRUE, threw |-> FALSE, result |-> null]

\* the statements of findPath after animatePath: isRunning = false; return {...}
ReturnFound(s, fr) == Returned([s EXCEPT !.astar.isRunning = FALSE], fr, Found(s))

\* a path reveal that marks every cell of the path, start and end included
RECURSIVE animatePathAll(_, _, _)
animatePathAll(s, fr, i) ==
    IF i > Len(s.astar.path) THEN ReturnFound(s, fr)
    ELSE Suspended([s EXCEPT !.heap[s.astar.path[i]].isPath = TRUE],
                   [fr EXCEPT !.pc = "pathDelay", !.i = i + 1,
                              !.ms = PathDelay(s, fr)])

\* animatePath from index i (1-based) of this.path
RECURSIVE animatePath(_, _, _)
animatePath(s, fr, i) ==
    IF i > Len(s.astar.path) THEN ReturnFound(s, fr)
    ELSE LET node == s.astar.path[i]
         IN IF ~s.heap[node].isStart /\ ~s.heap[node].isEnd
            THEN Suspended([s EXCEPT !.heap[node].isPath = TRUE],
                           [fr EXCEPT !.pc = "pathDelay", !.i = i + 1,
                                      !.ms = PathDelay(s, fr)])
            ELSE animatePath(s, fr, i + 1)

\* a relaxation that does not skip the nodes of closedSet and takes a
\* tentative g that equals the neighbour's g as better
RECURSIVE RelaxReopening(_, _, _, _, _)
RelaxReopening(s, fr, currentNode, neighbors, k) ==
    IF k > Len(neighbors) THEN s
    ELSE LET neighbor == neighbors[k]
             nb == s.heap[neighbor]
             tentativeG == Plus(s.heap[currentNode].g, nb.weight)
             s1 == IF nb.isWall
                   THEN s
                   ELSE IF ~Less(nb.g, tentativeG)
                   THEN LET hh == calculateHeuristic(nb, s.heap[fr.endNode])
                        IN [s EXCEPT
                              !.heap[neighbor] =
                                  [nb EXCEPT !.parent = currentNode,
                                             !.g = tentativeG, !.h = hh,
                                             !.f = Plus(tentativeG, hh)],
                              !.astar.openSet =
                                  IF Includes(s.astar.openSet, neighbor)
                                  THEN s.astar.openSet
                                  ELSE Append(s.astar.openSet, neighbor)]
                   ELSE s
         IN RelaxReopening(s1, fr, currentNode, neighbors, k + 1)

\* a relaxation whose tentative g leaves out the weight of the neighbour
RECURSIVE RelaxWeightless(_, _, _, _, _)
RelaxWeightless(s, fr, currentNode, neighbors, k) ==
    IF k > Len(neighbors) THEN s
    ELSE LET neighbor == neighbors[k]
             nb == s.heap[neighbor]
             tentativeG == s.heap[currentNode].g
             s1 == IF Includes(s.astar.closedSet, neighbor) \/ nb.isWall
                   THEN s
                   ELSE IF Less(tentativeG, nb.g)
                   THEN LET hh == calculateHeuristic(nb, s.heap[fr.endNode])
                        IN [s EXCEPT
                              !.heap[neighbor] =
                                  [nb EXCEPT !.parent = currentNode,
                                             !.g = tentativeG, !.h = hh,
                                             !.f = Plus(tentativeG, hh)],
                              !.astar.openSet =
                                  IF Includes(s.astar.openSet, neighbor)
                                  THEN s.astar.openSet
                                  ELSE Append(s.astar.openSet, neighbor)]
                   ELSE s
         IN RelaxWeightless(s1, fr, currentNode, neighbors, k + 1)

\* the for loop over the neighbours of currentNode
RECURSIVE Relax(_, _, _, _, _)
Relax(s, fr, currentNode, neighbors, k) ==
    IF k > Len(neighbors) THEN s
    ELSE LET neighbor == neighbors[k]
             nb == s.heap[neighbor]
             tentativeG == Plus(s.heap[currentNode].g, nb.weight)
             s1 == IF Includes(s.astar.closedSet, neighbor) \/ nb.isWall
                   THEN s
                   ELSE IF Less(tentativeG, nb.g)
                   THEN LET hh == calculateHeuristic(nb, s.heap[fr.endNode])
                        IN [s EXCEPT
                              !.heap[neighbor] =
                                  [nb EXCEPT !.parent = currentNode,
                                             !.g = tentativeG, !.h = hh,
                                             !.f = Plus(tentativeG, hh)],
                              !.astar.openSet =
                                  IF Includes(s.astar.openSet, neighbor)
                                  THEN s.astar.openSet
                                  ELSE Append(s.astar.openSet, neighbor)]
                   ELSE s
         IN Relax(s1, fr, currentNode, neighbors, k + 1)

RECURSIVE Run(_, _)

\* from "const neighbors = ..." to the end of the loop body, then the loop
Expand(s, fr) ==
    Run(Relax(s, fr, fr.currentNode, getNeighbors(s, fr.currentNode), 1), fr)

\* a loop whose visited bookkeeping pushes the node to closedSet once more
\* instead of pushing it to visitedNodes
RunClosingTwice(s, fr) ==
    IF ~(Len(s.astar.openSet) > 0 /\ s.astar.isRunning)
    THEN Returned([s EXCEPT !.astar.isRunning = FALSE], fr, null)
    ELSE LET currentNode == getLowestFNode(s)
         IN IF currentNode = fr.endNode
            THEN LET s1 == [s EXCEPT !.astar.path =
                                 reconstructPath(s.heap, currentNode)]
                 IN IF fr.animate THEN animatePath(s1, fr, 1)
                    ELSE ReturnFound(s1, fr)
            ELSE LET s1 == [s EXCEPT
                              !.astar.openSet = removeFromArray(@, currentNode),
                              !.astar.closedSet = Append(@, currentNode)]
                     fr1 == [fr EXCEPT !.currentNode = currentNode]
                 IN IF ~s.heap[currentNode].isStart /\ ~s.heap[currentNode].isEnd
                    THEN LET s2 == [s1 EXCEPT
                                      !.heap[currentNode].isVisited = TRUE,
                                      !.astar.closedSet = Append(@, currentNode),
                                      !.astar.nodesExplored = @ + 1]
                         IN IF fr.animate
                            THEN Suspended(s2, [fr1 EXCEPT !.pc = "delay",
                                                  !.ms = ExploreDelay(s, fr)])
                            ELSE Expand(s2, fr1)
                    ELSE Expand(s1, fr1)

\* the while loop of findPath, from its guard
Run(s, fr) ==
    IF ~(Len(s.astar.openSet) > 0 /\ s.astar.isRunning)
    THEN Returned([s EXCEPT !.astar.isRunning = FALSE], fr, null)
    ELSE LET currentNode == getLowestFNode(s)
         IN IF currentNode = fr.endNode
            THEN LET s1 == [s EXCEPT !.astar.path =
                                 reconstructPath(s.heap, currentNode)]
                 IN IF fr.animate THEN animatePath(s1, fr, 1)
                    ELSE ReturnFound(s1, fr)
            ELSE LET s1 == [s EXCEPT
                              !.astar.openSet = removeFromArray(@, currentNode),
                              !.astar.closedSet = Append(@, currentNode)]
                     fr1 == [fr EXCEPT !.currentNode = currentNode]
                 IN IF ~s.heap[currentNode].isStart /\ ~s.heap[currentNode].isEnd
                    THEN LET s2 == [s1 EXCEPT
                                      !.heap[currentNode].isVisited = TRUE,
                                      !.astar.visitedNodes = Append(@, currentNode),
                                      !.astar.nodesExplored = @ + 1]
                         IN IF fr.animate
                            THEN Suspended(s2, [fr1 EXCEPT !.pc = "delay",
                                                  !.ms = ExploreDelay(s, fr)])
                            ELSE Expand(s2, fr1)
                    ELSE Expand(s1, fr1)

\* the locals of a findPath invocation; caller tells who awaits it
Frame(animate, currentSpeed, endNode, caller) ==
    [pc |-> "start", animate |-> animate, currentSpeed |-> currentSpeed,
     endNode |-> endNode, currentNode |-> null, i |-> 0, ms |-> 0,
     caller |-> caller]

\* findPath(animate, overrideSpeed), up to its first await or its return;
\* the base source has no overrideSpeed parameter and ignores it
findPath(s, animate, overrideSpeed, caller) ==
    LET fr == Frame(animate,
                    IF overrideSpeed # null /\ s.astar.impl = "override"
                    THEN overrideSpeed[1] ELSE s.astar.animationSpeed,
                    s.grid.endNode, caller)
    IN IF s.astar.isRunning THEN Returned(s, [fr EXCEPT !.pc = "guard"], null)
       ELSE IF s.grid.startNode = null \/ s.grid.endNode = null
       THEN Returned(s, [fr EXCEPT !.pc = "guard"], null)
       ELSE LET s1 == reset([s EXCEPT !.astar.isRunning = TRUE])
                startNode == s.grid.startNode
                hh == calculateHeuristic(s1.heap[startNode], s1.heap[fr.endNode])
                s2 == [s1 EXCEPT !.heap[startNode].g = 0,
                                 !.heap[startNode].h = hh,
                                 !.heap[startNode].f = hh,
                                 !.astar.openSet = Append(@, startNode)]
            IN Run(s2, fr)

\* the continuation of a suspended invocation when its timer fires
resume(s, fr) ==
    IF fr.pc = "delay" THEN Expand(s, fr) ELSE animatePath(s, fr, fr.i)

(***************************************************************************)
(* GridRenderer.visualizeAlgorithm.  The function it stores in             *)
(* algorithm.onNodeVisited is kept as the state of its closure: the        *)
(* counter nodesVisited and the nodes it has been called with.  No         *)
(* statement of AStar reads the onNodeVisited property.                    *)
(***************************************************************************)
\* the function as it is stored
Subscription == [nodesVisited |-> 0, delivered |-> <<>>]

\* a call of the stored function with a node
NodeVisited(cb, node) ==
    [cb EXCEPT !.nodesVisited = @ + 1, !.delivered = Append(@, node)]

\* visualizeAlgorithm up to the first await of its findPath(true)
visualizeAlgorithm(s) ==
    findPath([s EXCEPT !.astar.onNodeVisited = Subscription], TRUE, null,
             "renderer")

(***************************************************************************)
(* Helpers: the maze generator.                                            *)
(***************************************************************************)
\* what a call of an async function evaluates to when it is not awaited: a
\* Promise object holding the value the function returned
Promise(value) == [promise |-> value]

\* createSimplePath: walls off along the start's row between the two columns
\* and along the end's column between the two rows
createSimplePath(w) ==
    LET start == w.heap[w.grid.startNode]
        end == w.heap[w.grid.endNode]
        corridor ==
            {<<start.row, c>> :
                 c \in MinOf(start.col, end.col) .. MaxOf(start.col, end.col)}
              \cup {<<r, end.col>> :
                 r \in MinOf(start.row, end.row) .. MaxOf(start.row, end.row)}
        opened == {getNode(w, p[1], p[2]) : p \in corridor} \ {null}
    IN [w EXCEPT !.heap = [r \in DOMAIN w.heap |->
          IF r \in opened /\ w.heap[r].isWall
          THEN [w.heap[r] EXCEPT !.isWall = FALSE]
          ELSE w.heap[r]]]

\* ensurePathExists: a new AStar runs findPath(false) on the grid, and the
\* value of that call, which is not awaited, is tested with !
ensurePathExists(w, impl) ==
    LET r == findPath([grid |-> w.grid, heap |-> w.heap, astar |-> AStar(impl)],
                      FALSE, null, "helpers")
        result == Promise(r.result)
        w1 == [w EXCEPT !.heap = r.s.heap]
    IN IF result = null THEN createSimplePath(w1) ELSE w1

\* generateMaze; placed holds the cells for which Math.random() < density
generateMaze(w, placed, impl) ==
    LET w1 == clearWalls(w)
        chosen == {w1.grid.nodes[p] : p \in placed}
        w2 == [w1 EXCEPT !.heap = [r \in DOMAIN w1.heap |->
                 IF r \in chosen /\ ~w1.heap[r].isStart /\ ~w1.heap[r].isEnd
                 THEN [w1.heap[r] EXCEPT !.isWall = TRUE]
                 ELSE w1.heap[r]]]
    IN ensurePathExists(w2, impl)

(***************************************************************************)
(* The state: grid is the Grid object, heap the Node objects, astar the    *)
(* AStar object, frames the suspended findPath invocations (each waiting   *)
(* for its timer), controls the Controls object, last the operation that    *)
(* led to the state with its arguments and outcome.                        *)
(*                                                                         *)
(* Objects no reference reaches are dropped and the allocation stamps of    *)
(* the others renumbered in order, so that a state is one heap shape.       *)
(***************************************************************************)
RECURSIVE Close(_, _)
Close(h, S) ==
    LET T == (S \cup {h[x].parent : x \in S}) \ {null}
    IN IF T = S THEN S ELSE Close(h, T)

FrameRefs(fs) ==
    UNION {{fs[i].endNode, fs[i].currentNode} : i \in DOMAIN fs}

ResultRefs(result) ==
    IF result = null THEN {}
    ELSE Range(result.path) \cup Range(result.visitedNodes)

Roots(st) ==
    (Range(st.grid.nodes) \cup {st.grid.startNode, st.grid.endNode}
       \cup Range(st.astar.openSet) \cup Range(st.astar.closedSet)
       \cup Range(st.astar.path) \cup Range(st.astar.visitedNodes)
       \cup FrameRefs(st.frames) \cup ResultRefs(st.last.result)
       \cup (IF st.astar.onNodeVisited = null THEN {}
             ELSE Range(st.astar.onNodeVisited.delivered))) \ {null}

Renamed(gens, r) ==
    IF r = null THEN null
    ELSE <<Cardinality({x \in gens : x < r[1]}), r[2], r[3]>>

RenamedSeq(gens, seq) == [i \in DOMAIN seq |-> Renamed(gens, seq[i])]

Normalize(st) ==
    LET live == Close(st.heap, Roots(st))
        gens == {r[1] : r \in live}
        R(r) == Renamed(gens, r)
        RS(seq) == RenamedSeq(gens, seq)
    IN IF live = DOMAIN st.heap /\ gens = 0 .. (Cardinality(gens) - 1) THEN st ELSE
       [grid |-> [st.grid EXCEPT
                    !.nodes = [p \in DOMAIN st.grid.nodes |-> R(st.grid.nodes[p])],
                    !.startNode = R(@), !.endNode = R(@)],
        heap |-> [r \in {R(x) : x \in live} |->
                    LET x == CHOOSE y \in live : R(y) = r
                    IN [st.heap[x] EXCEPT !.parent = R(@)]],
        astar |-> [st.astar EXCEPT !.openSet = RS(@), !.closedSet = RS(@),
                                   !.path = RS(@), !.visitedNodes = RS(@),
                                   !.onNodeVisited =
                                       IF @ = null THEN null
                                       ELSE [@ EXCEPT !.delivered = RS(@)]],
        frames |-> [i \in DOMAIN st.frames |->
                      [st.frames[i] EXCEPT !.endNode = R(@), !.currentNode = R(@)]],
        controls |-> st.controls,
        last |-> [st.last EXCEPT
                    !.result = IF @ = null THEN null
                               ELSE [@ EXCEPT !.path = RS(@), !.visitedNodes = RS(@)]]]

\* the record of an operation: its name, its numeric arguments, the data
\* object given to an import, how it ended and what findPath resolved with
Op(op, args, data, ret, result) ==
    [op |-> op, args |-> args, data |-> data, ret |-> ret, result |-> result]

Here == [grid |-> grid, heap |-> heap, astar |-> astar, frames |-> frames,
         controls |-> controls, last |-> last]

World == [grid |-> grid, heap |-> heap, threw |-> FALSE]

Become(st) ==
    LET n == Normalize(st)
    IN /\ grid' = n.grid
       /\ heap' = n.heap
       /\ astar' = n.astar
       /\ frames' = n.frames
       /\ controls' = n.controls
       /\ last' = n.last

\* the state after a Grid method called from outside ended in world w
AfterGrid(w, op, args, data, ret) ==
    Become([Here EXCEPT !.grid = w.grid, !.heap = w.heap,
                        !.last = Op(op, args, data, ret, null)])

Outcome(w) == IF w.threw THEN "threw" ELSE "void"

Bool(b) == IF b THEN "true" ELSE "false"

(***************************************************************************)
(* The grid-operation specification: a Grid is constructed and its methods  *)
(* are called in any order with any arguments.                              *)
(***************************************************************************)
\* the dimensions of the grids constructed: every positive number of rows
\* and of columns that gives no more than maxCells cells
Shapes(maxCells) ==
    {d \in (1 .. maxCells) \X (1 .. maxCells) : d[1] * d[2] <= maxCells}

\* the row and column arguments tried on the current grid: every cell, and one
\* position beyond each of the four edges
Targets ==
    DOMAIN grid.nodes \cup {<<-1, 0>>, <<grid.rows, 0>>, <<0, -1>>, <<0, grid.cols>>}

Constructed(rows, cols, impl) ==
    LET w == Grid(rows, cols, <<>>)
    IN Normalize([grid |-> w.grid, heap |-> w.heap, astar |-> AStar(impl),
                  frames |-> <<>>, controls |-> [isRunning |-> FALSE],
                  last |-> Op("new", <<rows, cols>>, null, Outcome(w), null)])

StartsAs(st) ==
    /\ grid = st.grid
    /\ heap = st.heap
    /\ astar = st.astar
    /\ frames = st.frames
    /\ controls = st.controls
    /\ last = st.last

InitGrid == \E d \in Shapes(GridMaxCells) : StartsAs(Constructed(d[1], d[2], "base"))

\* the Node at position p before a call, null outside the grid
TargetBefore(p) == IF p \in DOMAIN grid.nodes THEN heap[grid.nodes[p]] ELSE null

SetStartNode ==
    \E p \in Targets :
        LET w == setStartNode(World, p[1], p[2])
        IN AfterGrid(w, "setStartNode", p, TargetBefore(p), Outcome(w))

SetEndNode ==
    \E p \in Targets :
        LET w == setEndNode(World, p[1], p[2])
        IN AfterGrid(w, "setEndNode", p, null, Outcome(w))

\* node.toggleWall() on a cell of the grid
ToggleWall ==
    \E p \in DOMAIN grid.nodes :
        LET w == [World EXCEPT !.heap[grid.nodes[p]] = toggleWall(@)]
        IN AfterGrid(w, "toggleWall", p, null, Outcome(w))

ClearWalls ==
    LET w == clearWalls(World)
    IN AfterGrid(w, "clearWalls", <<>>, null, Outcome(w))

ResetGrid ==
    LET w == resetGrid(World)
    IN AfterGrid(w, "resetGrid", <<>>, null, Outcome(w))

\* dimensions with no row, no column or a negative number of rows
InvalidSizes == {<<0, 1>>, <<1, 0>>, <<-1, 1>>}

Resize ==
    \E d \in Shapes(GridMaxCells) \cup InvalidSizes :
        LET w == resize(World, d[1], d[2])
        IN AfterGrid(w, "resize", d, null, Outcome(w))

NextGrid ==
    \/ SetStartNode
    \/ SetEndNode
    \/ ToggleWall
    \/ ClearWalls
    \/ ResetGrid
    \/ Resize

SpecGrid == InitGrid /\ [][NextGrid]_vars

\* the cells of the current grid whose Node has the flag
StartCells == {p \in DOMAIN grid.nodes : heap[grid.nodes[p]].isStart}

EndCells == {p \in DOMAIN grid.nodes : heap[grid.nodes[p]].isEnd}

WallCells == {p \in DOMAIN grid.nodes : heap[grid.nodes[p]].isWall}

\* how many of isStart, isEnd, isWall a Node has
Roles(n) ==
    (IF n.isStart THEN 1 ELSE 0) + (IF n.isEnd THEN 1 ELSE 0)
      + (IF n.isWall THEN 1 ELSE 0)

\* C1: in every state reachable by Grid operations exactly one cell has
\* isStart, exactly one has isEnd, and no cell has more than one of isStart,
\* isEnd, isWall.
C1_OneStartOneEnd ==
    /\ Cardinality(StartCells) = 1
    /\ Cardinality(EndCells) = 1
    /\ \A p \in DOMAIN grid.nodes : Roles(heap[grid.nodes[p]]) <= 1

\* the target of the setStartNode or setEndNode call that led here lies
\* outside the grid it was called on
OutOfBounds(g, p) == p \notin DOMAIN g.nodes

\* C14: constructing a Grid or resizing it with rows >= 1 and cols >= 1 does
\* not throw, and in every state the start and the end are cells of the
\* grid and are two different cells.
C14_StartEndDiffer ==
    /\ (last.op \in {"new", "resize"} /\ last.args[1] >= 1 /\ last.args[2] >= 1)
          => last.ret # "threw"
    /\ \E p \in DOMAIN grid.nodes : grid.nodes[p] = grid.startNode
    /\ \E p \in DOMAIN grid.nodes : grid.nodes[p] = grid.endNode
    /\ grid.startNode # grid.endNode

\* C16: setStartNode on an in-bounds cell that is a wall returns normally
\* and leaves that cell with isStart and without isWall, no other cell with
\* isStart, and getGridData() with the cell as startNode and not in walls.
C16_StartReplacesWall ==
    [][(/\ last'.op = "setStartNode"
        /\ last'.args \in DOMAIN grid.nodes
        /\ heap[grid.nodes[last'.args]].isWall)
         => LET p == last'.args
                d == getGridData([grid |-> grid', heap |-> heap',
                                  threw |-> FALSE])
            IN /\ last'.ret = "void"
               /\ heap'[grid'.nodes[p]].isStart
               /\ ~heap'[grid'.nodes[p]].isWall
               /\ StartCells' = {p}
               /\ grid'.startNode = grid'.nodes[p]
               /\ d.startNode = p
               /\ ~Includes(d.walls, p)]_vars

\* setStartNode has returned from a call on a cell that was a wall, on a
\* grid whose start was on another cell
C16_Witness ==
    /\ last.op = "setStartNode"
    /\ last.ret = "void"
    /\ last.data # null
    /\ last.data.isWall
    /\ StartCells = {last.args}
    /\ EndCells # {}

\* C17: resize with rows < 1 or cols < 1 fails and leaves the grid's rows,
\* cols, cells, start and end as they were before the call.
C17_InvalidResizeRejected ==
    [][(last'.op = "resize" /\ (last'.args[1] < 1 \/ last'.args[2] < 1))
         => /\ last'.ret = "threw"
            /\ grid' = grid
            /\ heap' = heap]_vars

\* C8: setStartNode and setEndNode called with an out-of-bounds target, or
\* with a target holding the opposite role, change no cell's isStart, isEnd
\* or isWall and neither the startNode nor the endNode reference.
C8_RejectedWithoutEffect ==
    [][(\/ /\ last'.op = "setStartNode"
           /\ \/ OutOfBounds(grid, last'.args)
              \/ heap[grid.nodes[last'.args]].isEnd
        \/ /\ last'.op = "setEndNode"
           /\ \/ OutOfBounds(grid, last'.args)
              \/ heap[grid.nodes[last'.args]].isStart)
         => /\ grid' = grid
            /\ heap' = heap]_vars

(***************************************************************************)
(* The import specification: grid data, exported from a well-formed grid   *)
(* or damaged, is loaded once into a target grid.                          *)
(***************************************************************************)
\* a grid of the given shape with the start at s, the end at e and walls on
\* the cells of W
RECURSIVE WithWalls(_, _)
WithWalls(w, W) ==
    IF W = {} THEN w
    ELSE LET p == CHOOSE q \in W : TRUE
         IN WithWalls([w EXCEPT !.heap[w.grid.nodes[p]] = toggleWall(@)], W \ {p})

GridWith(rows, cols, s, e, W) ==
    WithWalls(setEndNode(setStartNode(Grid(rows, cols, <<>>), s[1], s[2]),
                         e[1], e[2]), W)

\* the grids of the given shapes with one start, one end elsewhere and walls
\* on other cells
GridsOf(shapes) ==
    UNION {UNION {UNION {{GridWith(d[1], d[2], s, e, W) :
                             W \in SUBSET (Cells(d[1], d[2]) \ {s, e})} :
                         e \in Cells(d[1], d[2]) \ {s}} :
                  s \in Cells(d[1], d[2])} :
           d \in shapes}

ValidGrids == GridsOf(Shapes(GridMaxCells))

\* what getGridData gives for them
Exports == {getGridData(w) : w \in ValidGrids}

\* exports damaged in one field: a dimension missing, zero or negative, or the
\* start or the end outside the grid
Damaged(d) ==
    {[d EXCEPT !.rows = x] : x \in {Undefined, 0, -1}}
      \cup {[d EXCEPT !.cols = x] : x \in {Undefined, 0, -1}}
      \cup {[d EXCEPT !.startNode = x] : x \in {<<d.rows, 0>>, <<0, -1>>}}
      \cup {[d EXCEPT !.endNode = x] : x \in {<<-1, 0>>, <<0, d.cols>>}}

Malformed ==
    UNION {Damaged(getGridData(Grid(d[1], d[2], <<>>))) : d \in {<<1, 2>>, <<2, 1>>}}

\* exports whose walls also list the position of the start, of the end, or
\* of both
Overlapping ==
    UNION {{[d EXCEPT !.walls = <<d.startNode>> \o @],
            [d EXCEPT !.walls = Append(@, d.endNode)],
            [d EXCEPT !.walls = <<d.endNode>> \o @ \o <<d.startNode>>]} :
           d \in Exports}

LoadGridData ==
    \E data \in Exports \cup Malformed \cup Overlapping :
        /\ last.op = "new"
        /\ LET r == loadGridData(World, data)
           IN AfterGrid(r.w, "loadGridData", <<>>, data, Bool(r.ret))

ImportGrid ==
    \E data \in Exports \cup Malformed \cup Overlapping :
        /\ last.op = "new"
        /\ LET r == importGrid(World, data)
           IN AfterGrid(r.w, "importGrid", <<>>, data, Bool(r.ret))

\* the program with grid world w and a new AStar on it
Loaded(w, impl) ==
    Normalize([grid |-> w.grid, heap |-> w.heap, astar |-> AStar(impl),
               frames |-> <<>>, controls |-> [isRunning |-> FALSE],
               last |-> Op("new", <<w.grid.rows, w.grid.cols>>, null,
                           Outcome(w), null)])

\* grids a failed import has left behind
Broken == {loadGridData(Grid(1, 2, <<>>), data).w : data \in Malformed}

\* a target grid: a well-formed grid, the one-cell grid, or a broken one
InitLoad ==
    \E w \in ValidGrids \cup {Grid(1, 1, <<>>)} \cup Broken :
        StartsAs(Loaded(w, "base"))

NextLoad ==
    \/ LoadGridData
    \/ ImportGrid

SpecLoad == InitLoad /\ [][NextLoad]_vars

\* what a grid holds that an import is to set: its dimensions, its walls and
\* start and end cells by flag, and the cells startNode and endNode refer to
PositionOf(h, r) == IF r = null THEN null ELSE <<h[r].row, h[r].col>>

Contents(g, h) ==
    [data |-> getGridData([grid |-> g, heap |-> h, threw |-> FALSE]),
     startNode |-> PositionOf(h, g.startNode),
     endNode |-> PositionOf(h, g.endNode),
     attached |-> {g.startNode, g.endNode} \ {null} \subseteq Range(g.nodes)]

\* C6: loadGridData of the export of a well-formed grid, into any grid,
\* returns true and leaves the target with the rows, cols, walls, start and
\* end of the exported grid.
C6_RoundTrip ==
    (last.op = "loadGridData" /\ last.data \in Exports)
       => /\ last.ret = "true"
          /\ Contents(grid, heap) =
                [data |-> last.data, startNode |-> last.data.startNode,
                 endNode |-> last.data.endNode, attached |-> TRUE]

\* an export with a wall was loaded
C6_Witness ==
    /\ last.op = "loadGridData"
    /\ last.data \in Exports
    /\ last.data.walls # <<>>
    /\ last.ret = "true"
    /\ WallCells # {}

\* C7: loadGridData and importGrid given malformed data return false and
\* leave rows, cols, walls, start and end as they were before the call.
C7_MalformedLeavesGrid ==
    [][(last'.op \in {"loadGridData", "importGrid"} /\ last'.data \in Malformed)
         => /\ last'.ret = "false"
            /\ Contents(grid', heap') = Contents(grid, heap)]_vars

\* C26: when loadGridData or importGrid has returned true for data whose
\* walls list the position the data gives as startNode (as endNode), the
\* cell there is the start (the end) and is not a wall.
C26_RoleBeatsWall ==
    (last.op \in {"loadGridData", "importGrid"} /\ last.ret = "true")
       => LET d == last.data
              Listed(p) == p # null /\ Includes(d.walls, p)
              At(p) == heap[grid.nodes[p]]
          IN /\ Listed(d.startNode)
                  => /\ d.startNode \in DOMAIN grid.nodes
                     /\ At(d.startNode).isStart
                     /\ ~At(d.startNode).isWall
                     /\ grid.startNode = grid.nodes[d.startNode]
             /\ Listed(d.endNode)
                  => /\ d.endNode \in DOMAIN grid.nodes
                     /\ At(d.endNode).isEnd
                     /\ ~At(d.endNode).isWall
                     /\ grid.endNode = grid.nodes[d.endNode]

\* importGrid has returned true for data that lists the start, the end and
\* a third cell as walls
C26_Witness ==
    /\ last.op = "importGrid"
    /\ last.ret = "true"
    /\ Includes(last.data.walls, last.data.startNode)
    /\ Includes(last.data.walls, last.data.endNode)
    /\ WallCells # {}
    /\ StartCells = {last.data.startNode}
    /\ EndCells = {last.data.endNode}

(***************************************************************************)
(* The search specification: findPath runs on a well-formed grid, without  *)
(* animation or animated and resumed at each of its timers, with no other   *)
(* call in between.                                                        *)
(***************************************************************************)
\* grids of the search specification have at most this many rows and columns
SearchSide == 3

\* and at most this many cells
SearchMaxCells == 9

\* the state after a findPath invocation ran to r (suspended or returned);
\* i is its place among the suspended invocations, 0 for a new one.  When an
\* invocation awaited by Controls.startAlgorithm returns, startAlgorithm
\* goes on to set Controls.isRunning = false.
Without(seq, i) == SubSeq(seq, 1, i - 1) \o SubSeq(seq, i + 1, Len(seq))

AfterRun(c, r, i, op, args) ==
    Become([grid |-> r.s.grid, heap |-> r.s.heap, astar |-> r.s.astar,
            frames |-> IF r.suspended
                       THEN (IF i = 0 THEN Append(frames, r.fr)
                             ELSE [frames EXCEPT ![i] = r.fr])
                       ELSE (IF i = 0 THEN frames ELSE Without(frames, i)),
            controls |-> IF ~r.suspended /\ r.fr.caller = "controls"
                         THEN [c EXCEPT !.isRunning = FALSE] ELSE c,
            last |-> Op(op, args, null,
                        IF r.suspended THEN "suspended" ELSE "returned",
                        r.result)])

Search == [grid |-> grid, heap |-> heap, astar |-> astar]

InitSearch ==
    \E d \in {x \in (1 .. SearchSide) \X (1 .. SearchSide) :
                  x[1] * x[2] <= SearchMaxCells} :
        \E s \in Cells(d[1], d[2]) :
            \E e \in Cells(d[1], d[2]) \ {s} :
                \E W \in SUBSET (Cells(d[1], d[2]) \ {s, e}) :
                    StartsAs(Loaded(GridWith(d[1], d[2], s, e, W), "base"))

\* findPath(false) from the idle state
FindPathSync ==
    /\ frames = <<>>
    /\ last.op = "new"
    /\ AfterRun(controls, findPath(Search, FALSE, null, "test"), 0,
                "findPath", <<0>>)

\* findPath(true) from the idle state
FindPathAnimated ==
    /\ frames = <<>>
    /\ last.op = "new"
    /\ AfterRun(controls, findPath(Search, TRUE, null, "test"), 0,
                "findPath", <<1>>)

\* the timer of the suspended invocation fires
Tick ==
    /\ Len(frames) = 1
    /\ AfterRun(controls, resume(Search, frames[1]), 1, "resume", <<1>>)

\* findPath(false) once more after a run has returned
FindPathAgain ==
    /\ frames = <<>>
    /\ last.op \in {"findPath", "resume"}
    /\ last.ret = "returned"
    /\ AfterRun(controls, findPath(Search, FALSE, null, "test"), 0,
                "findPathAgain", <<0>>)

\* grid.resetPathfinding() while no run is suspended, and once more right
\* after it; the argument recorded is the number of the call
ResetPathfinding ==
    /\ frames = <<>>
    /\ \E k \in 1 .. 2 :
          /\ k = 1 => last.op # "resetPathfinding"
          /\ k = 2 => last.op = "resetPathfinding" /\ last.args = <<1>>
          /\ AfterGrid(resetPathfinding(World), "resetPathfinding", <<k>>,
                       null, "void")

NextSearch ==
    \/ FindPathSync
    \/ FindPathAnimated
    \/ Tick
    \/ FindPathAgain
    \/ ResetPathfinding

SpecSearch == InitSearch /\ [][NextSearch]_vars

\* the breadth-first oracle: the number of steps of a shortest route of
\* 4-neighbour non-wall cells from the start cell to the end cell, -1 if
\* there is none
Adjacent(p, q) == Abs(p[1] - q[1]) + Abs(p[2] - q[2]) = 1

RECURSIVE BfsFrom(_, _, _, _, _)
BfsFrom(free, frontier, seen, goal, d) ==
    IF goal \in frontier THEN d
    ELSE LET next == {q \in free \ seen : \E p \in frontier : Adjacent(p, q)}
         IN IF next = {} THEN -1
            ELSE BfsFrom(free, next, seen \cup next, goal, d + 1)

BfsDistance ==
    LET free == DOMAIN grid.nodes \ WallCells
        start == PositionOf(heap, grid.startNode)
        goal == PositionOf(heap, grid.endNode)
    IN BfsFrom(free, {start}, {start}, goal, 0)

\* a findPath invocation has returned in the step that led here
RunReturned == last.op \in {"findPath", "resume"} /\ last.ret = "returned"

\* C2: with all weights 1 and the goal reachable, the path findPath returns
\* has as many steps (cells minus one) as a breadth-first shortest route.
C2_PathIsShortest ==
    (RunReturned /\ BfsDistance >= 0 /\ last.result # null)
       => /\ Len(last.result.path) - 1 = BfsDistance
          /\ last.result.pathLength = Len(last.result.path)

\* a run returned a path that goes around walls: longer than the Manhattan
\* distance between start and end
C2_Witness ==
    /\ RunReturned
    /\ last.result # null
    /\ WallCells # {}
    /\ \A n \in DOMAIN heap : heap[n].weight = 1
    /\ Len(last.result.path) - 1 >
          calculateHeuristic(heap[grid.startNode], heap[grid.endNode])

\* C3: an uninterrupted findPath returns null exactly when no route of
\* 4-neighbour non-wall cells connects start and end, and a result with a
\* path whenever there is one.
C3_NullIffUnreachable ==
    RunReturned =>
       /\ (last.result = null) <=> (BfsDistance = -1)
       /\ last.result # null =>
             /\ last.result.path # <<>>
             /\ last.result.path[1] = grid.startNode
             /\ last.result.path[Len(last.result.path)] = grid.endNode

\* a run explored cells and returned null on a grid whose end is walled off
C3_Witness ==
    /\ RunReturned
    /\ last.result = null
    /\ astar.nodesExplored >= 2
    /\ BfsDistance = -1

\* C11: on a grid without walls, wherever start and end are, findPath
\* returns a result whose path has |start.row - end.row| +
\* |start.col - end.col| + 1 cells.
C11_OpenGridManhattan ==
    (RunReturned /\ WallCells = {})
       => /\ last.result # null
          /\ Len(last.result.path) =
                calculateHeuristic(heap[grid.startNode], heap[grid.endNode]) + 1

\* a run returned on a grid without walls whose start and end differ in row
\* and in column
C11_Witness ==
    /\ RunReturned
    /\ WallCells = {}
    /\ last.result # null
    /\ heap[grid.startNode].row # heap[grid.endNode].row
    /\ heap[grid.startNode].col # heap[grid.endNode].col
    /\ Len(last.result.path) >= 4

\* C12: findPath run twice on the same grid, with no layout change in
\* between, gives the same path and the same visitedNodes both times.
C12_SecondRunSame ==
    [][last'.op = "findPathAgain"
         => /\ last'.result = last.result
            /\ astar'.path = astar.path
            /\ astar'.visitedNodes = astar.visitedNodes]_vars

\* a second run returned a path around walls after visiting cells
C12_Witness ==
    /\ last.op = "findPathAgain"
    /\ last.result # null
    /\ WallCells # {}
    /\ Len(last.result.visitedNodes) >= 2
    /\ Len(last.result.path) >= 4

(***************************************************************************)
(* The maze specification: Helpers.generateMaze on a grid with a start, an *)
(* end and walls, for every outcome of its random draws, and a findPath    *)
(* on the maze it leaves.                                                   *)
(***************************************************************************)
\* grids of the maze specification have at most this many cells
MazeMaxCells == 6

InitMaze ==
    \E d \in {x \in (1 .. MazeMaxCells) \X (1 .. MazeMaxCells) :
                  x[1] * x[2] <= MazeMaxCells} :
        \E s \in Cells(d[1], d[2]) :
            \E e \in Cells(d[1], d[2]) \ {s} :
                \E W \in SUBSET (Cells(d[1], d[2]) \ {s, e}) :
                    StartsAs(Loaded(GridWith(d[1], d[2], s, e, W), "base"))

\* Helpers.generateMaze(grid, density); a draw is made for every cell that
\* is neither the start nor the end
GenerateMaze ==
    /\ last.op = "new"
    /\ \E placed \in SUBSET (DOMAIN grid.nodes \ (StartCells \cup EndCells)) :
          LET w == generateMaze(World, placed, astar.impl)
          IN AfterGrid(w, "generateMaze", placed, null, Outcome(w))

\* findPath(false) on the generated maze
FindPathInMaze ==
    /\ last.op = "generateMaze"
    /\ AfterRun(controls, findPath(Search, FALSE, null, "test"), 0,
                "findPath", <<0>>)

NextMaze ==
    \/ GenerateMaze
    \/ FindPathInMaze

SpecMaze == InitMaze /\ [][NextMaze]_vars

\* C18: when generateMaze has returned, whatever walls the random draws
\* placed, a route of non-wall cells leads from the start to the end, and
\* findPath on the maze finds a path.
C18_MazeLeavesRoute ==
    /\ last.op = "generateMaze" => BfsDistance >= 0
    /\ (last.op = "findPath" /\ last.ret = "returned") => last.result # null

(***************************************************************************)
(* The visualization specification: an animated run started through        *)
(* GridRenderer.visualizeAlgorithm on a grid with walls, and its timers.    *)
(***************************************************************************)
VisualizeAlgorithm ==
    /\ frames = <<>>
    /\ last.op = "new"
    /\ AfterRun(controls, visualizeAlgorithm(Search), 0, "visualizeAlgorithm",
                <<>>)

NextVisualize ==
    \/ VisualizeAlgorithm
    \/ Tick

SpecVisualize == InitMaze /\ [][NextVisualize]_vars

\* C20: in a run started through visualizeAlgorithm the function stored in
\* onNodeVisited has been called once with each cell appended to
\* visitedNodes, in the order of the appends.
C20_NotifiedPerVisit ==
    astar.onNodeVisited # null
       => /\ astar.onNodeVisited.delivered = astar.visitedNodes
          /\ astar.onNodeVisited.nodesVisited = Len(astar.visitedNodes)

(***************************************************************************)
(* The animation specification: one findPath(true) on a grid that is left   *)
(* alone, whose timers all fire.                                            *)
(***************************************************************************)
NextAnimate ==
    \/ FindPathAnimated
    \/ Tick

\* every timer that delay() starts fires: weak fairness of Tick, whose steps
\* all change the state and which is enabled exactly when one invocation is
\* suspended
SpecAnimate ==
    /\ InitMaze
    /\ [][NextAnimate]_vars
    /\ ([]<>(Len(frames) # 1) \/ []<><<Tick>>_vars)

\* C34: an animated run that is not stopped returns in the end.  Each of its
\* exploration suspensions follows the append of a cell that visitedNodes
\* did not hold, and each of its reveal suspensions is for a later index of
\* the path than the one before, the path holding no cell twice.
C34_AnimatedRunResolves ==
    /\ [][(last'.ret = "suspended")
            => LET fr == frames'[1]
                   visited == astar'.visitedNodes
                   path == astar'.path
               IN IF fr.pc = "delay"
                  THEN /\ visited = Append(astar.visitedNodes, fr.currentNode)
                       /\ ~Includes(astar.visitedNodes, fr.currentNode)
                  ELSE /\ fr.pc = "pathDelay"
                       /\ fr.i - 1 \in DOMAIN path
                       /\ (frames # <<>> /\ frames[1].pc = "pathDelay")
                             => fr.i > frames[1].i
                       /\ \A j, k \in DOMAIN path : path[j] = path[k] => j = k
                       /\ heap'[path[fr.i - 1]].isPath]_vars
    /\ (frames # <<>> ~> frames = <<>>)

\* a run has returned a path after at least three exploration suspensions
\* and two reveal suspensions
C34_Witness ==
    /\ frames = <<>>
    /\ last.op = "resume"
    /\ last.result # null
    /\ Len(last.result.visitedNodes) >= 3
    /\ Len(last.result.path) >= 4

(***************************************************************************)
(* The moved-role specification: findPath(true) on grids where the end was  *)
(* put on the start cell and then moved on (setStartNode(s), setEndNode(s),  *)
(* setEndNode(e)), or the start was put on the end cell and then moved on.   *)
(***************************************************************************)
InitMoved ==
    \E d \in {x \in (1 .. MazeMaxCells) \X (1 .. MazeMaxCells) :
                  x[1] * x[2] <= MazeMaxCells} :
        \E s \in Cells(d[1], d[2]) :
            \E e \in Cells(d[1], d[2]) \ {s} :
                \E W \in SUBSET (Cells(d[1], d[2]) \ {s, e}) :
                    \E endMoved \in BOOLEAN :
                        LET g == Grid(d[1], d[2], <<>>)
                            w == IF endMoved
                                 THEN setEndNode(setEndNode(setStartNode(
                                          g, s[1], s[2]), s[1], s[2]),
                                          e[1], e[2])
                                 ELSE setStartNode(setStartNode(setEndNode(
                                          g, e[1], e[2]), e[1], e[2]),
                                          s[1], s[2])
                        IN StartsAs(Loaded(WithWalls(w, W), "base"))

SpecMoved == InitMoved /\ [][NextAnimate]_vars

\* C36: when an animated run has returned a result on a grid that was not
\* edited meanwhile, the cells with isPath are the cells of the returned path
\* but its first and its last, and each of them has isVisited and is in
\* visitedNodes.
C36_PathCellsAreInterior ==
    (frames = <<>> /\ last.ret = "returned" /\ last.result # null)
       => LET path == last.result.path
              inner == {path[k] : k \in 2 .. (Len(path) - 1)}
          IN /\ {n \in DOMAIN heap : heap[n].isPath} = inner
             /\ \A n \in inner :
                   /\ heap[n].isVisited
                   /\ Includes(last.result.visitedNodes, n)

\* the node that at most k parent links lead to from n
RECURSIVE RootOf(_, _, _)
RootOf(h, n, k) ==
    IF k = 0 \/ h[n].parent = null THEN n ELSE RootOf(h, h[n].parent, k - 1)

\* C37: at every point of a run the parent links form a tree rooted at the
\* start: a cell with a parent has a finite g that is at least its parent's
\* g plus 1, and the parent links from it end at the start cell, which has
\* no parent, after fewer links than there are cells.
C37_ParentsFormTree ==
    \A n \in DOMAIN heap :
        heap[n].parent # null
           => /\ heap[n].parent \in DOMAIN heap
              /\ heap[n].g # Infinity
              /\ heap[n].g >= heap[heap[n].parent].g + 1
              /\ RootOf(heap, n, Cardinality(DOMAIN heap) - 1) = grid.startNode
              /\ heap[grid.startNode].parent = null

\* a suspended run with a cell three parent links away from the start
C37_Witness ==
    /\ Len(frames) = 1
    /\ frames[1].pc = "delay"
    /\ \E n \in DOMAIN heap :
          /\ heap[n].parent # null
          /\ RootOf(heap, n, 2) # grid.startNode
          /\ RootOf(heap, n, 3) = grid.startNode

\* C38: at every point of a run openSet and closedSet have no cell in
\* common, neither holds a cell twice, every cell of either has a finite g,
\* and nodesExplored is the length of visitedNodes.
C38_SetsWellFormed ==
    LET open == astar.openSet
        closed == astar.closedSet
    IN /\ Range(open) \cap Range(closed) = {}
       /\ Cardinality(Range(open)) = Len(open)
       /\ Cardinality(Range(closed)) = Len(closed)
       /\ \A n \in Range(open) \cup Range(closed) : heap[n].g # Infinity
       /\ astar.nodesExplored = Len(astar.visitedNodes)

\* a suspended run with cells in both sets and two cells explored
C38_Witness ==
    /\ Len(frames) = 1
    /\ frames[1].pc = "delay"
    /\ Len(astar.openSet) >= 2
    /\ Len(astar.closedSet) >= 3
    /\ astar.nodesExplored >= 2

C22_ClosedStaysClosed ==
    [][LET NoDup(seq) == \A i, j \in DOMAIN seq : seq[i] = seq[j] => i = j
       IN /\ NoDup(astar'.closedSet)
          /\ NoDup(astar'.visitedNodes)
          /\ Range(astar'.openSet) \cap Range(astar'.closedSet) = {}
          /\ (Len(frames) = 1 /\ last'.op = "resume")
               => /\ SubSeq(astar'.closedSet, 1, Len(astar.closedSet))
                       = astar.closedSet
                  /\ \A n \in Range(astar.closedSet) :
                        /\ heap'[n].g = heap[n].g
                        /\ heap'[n].f = heap[n].f
                        /\ heap'[n].parent = heap[n].parent]_vars

\* an animated run has returned after closing two neighbouring cells
\* neither of which is the parent of the other: the later one met the
\* earlier one as a closed neighbour
C22_Witness ==
    /\ last.op = "resume"
    /\ last.ret = "returned"
    /\ Len(astar.closedSet) >= 4
    /\ \E i, j \in DOMAIN astar.closedSet :
          /\ i < j
          /\ heap[astar.closedSet[j]].parent # astar.closedSet[i]
          /\ calculateHeuristic(heap[astar.closedSet[i]],
                                heap[astar.closedSet[j]]) = 1

\* C23: the f values of the nodes of closedSet, in the order they were
\* moved there, never decrease (every Node has weight 1).
C23_ClosedFNonDecreasing ==
    \A i, j \in DOMAIN astar.closedSet :
        i < j => heap[astar.closedSet[i]].f <= heap[astar.closedSet[j]].f

\* a run has returned after closing nodes of different f
C23_Witness ==
    /\ RunReturned
    /\ Len(astar.closedSet) >= 3
    /\ \A n \in DOMAIN heap : heap[n].weight = 1
    /\ heap[astar.closedSet[1]].f
          < heap[astar.closedSet[Len(astar.closedSet)]].f
    /\ heap[astar.closedSet[Len(astar.closedSet)]].f < Infinity

\* C24: findPath(false) returns, and when it has returned closedSet holds at
\* most rows * cols nodes.
C24_SyncRunBounded ==
    (last.op \in {"findPath", "findPathAgain"} /\ last.args = <<0>>)
       => /\ last.ret = "returned"
          /\ frames = <<>>
          /\ ~astar.isRunning
          /\ Len(astar.closedSet) <= grid.rows * grid.cols

\* findPath(false) has returned with a path after closing every cell that
\* is neither a wall nor the end
C24_Witness ==
    /\ last.op = "findPath"
    /\ last.args = <<0>>
    /\ last.ret = "returned"
    /\ last.result # null
    /\ grid.rows * grid.cols >= 6
    /\ Len(astar.closedSet) + Cardinality(WallCells) + 1 = grid.rows * grid.cols
    /\ Len(astar.closedSet) >= 4

(***************************************************************************)
(* The one-cell-route specification: findPath on grids whose startNode and  *)
(* endNode are the same cell, as setStartNode on the end cell or setEndNode  *)
(* on the start cell leaves them.                                           *)
(***************************************************************************)
InitSame ==
    \E d \in {x \in (1 .. MazeMaxCells) \X (1 .. MazeMaxCells) :
                  x[1] * x[2] <= MazeMaxCells} :
        \E s \in Cells(d[1], d[2]) :
            \E W \in SUBSET (Cells(d[1], d[2]) \ {s}) :
                \E startLast \in BOOLEAN :
                    LET g == Grid(d[1], d[2], <<>>)
                        w == IF startLast
                             THEN setStartNode(setEndNode(g, s[1], s[2]),
                                               s[1], s[2])
                             ELSE setEndNode(setStartNode(g, s[1], s[2]),
                                             s[1], s[2])
                    IN StartsAs(Loaded(WithWalls(w, W), "base"))

NextSame ==
    \/ FindPathSync
    \/ FindPathAnimated

SpecSame == InitSame /\ [][NextSame]_vars

\* C27: when startNode and endNode are the same cell, findPath returns
\* without suspending, with a result whose path is that one cell, whose
\* visitedNodes is empty and whose nodesExplored is 0.
C27_SameCellOneCellPath ==
    (last.op = "findPath" /\ grid.startNode = grid.endNode)
       => /\ last.ret = "returned"
          /\ frames = <<>>
          /\ last.result # null
          /\ last.result.path = <<grid.startNode>>
          /\ last.result.pathLength = 1
          /\ last.result.visitedNodes = <<>>
          /\ last.result.nodesExplored = 0

\* findPath(true) has returned on such a grid with walls and other cells
C27_Witness ==
    /\ last.op = "findPath"
    /\ last.args = <<1>>
    /\ grid.startNode = grid.endNode
    /\ grid.startNode # null
    /\ WallCells # {}
    /\ Cardinality(DOMAIN grid.nodes) >= 4
    /\ last.result # null

\* C15: resetPathfinding called a second time in a row leaves every cell's
\* isVisited, isPath, g, h, f, parent and layout flags, and the grid, as the
\* first call left them.
C15_ResetIdempotent ==
    [][(last'.op = "resetPathfinding" /\ last'.args = <<2>>)
         => /\ heap' = heap
            /\ grid' = grid
            /\ astar' = astar]_vars

\* the second call has returned on a grid with walls on which a run had
\* visited cells and found a path before the first call
C15_Witness ==
    /\ last.op = "resetPathfinding"
    /\ last.args = <<2>>
    /\ WallCells # {}
    /\ Len(astar.visitedNodes) >= 2
    /\ Len(astar.path) >= 4
    /\ \A n \in DOMAIN heap :
          /\ ~heap[n].isVisited /\ ~heap[n].isPath /\ heap[n].parent = null
          /\ heap[n].g = Infinity /\ heap[n].f = Infinity /\ heap[n].h = 0

\* the start cell and the end cell of the grid
Endpoints == {grid.startNode, grid.endNode} \ {null}

\* C13: in a run on a grid that is not edited meanwhile, the start cell and
\* the end cell are never appended to visitedNodes and never get isVisited
\* or isPath, and the path returned begins with the start and ends with the
\* end.
C13_EndpointsUnmarked ==
    /\ \A n \in Endpoints :
          /\ ~Includes(astar.visitedNodes, n)
          /\ ~heap[n].isVisited
          /\ ~heap[n].isPath
    /\ (last.ret = "returned" /\ last.result # null)
          => /\ last.result.path # <<>>
             /\ last.result.path[1] = grid.startNode
             /\ last.result.path[Len(last.result.path)] = grid.endNode
             /\ \A n \in Endpoints : ~Includes(last.result.visitedNodes, n)

(***************************************************************************)
(* The run specification: on one AStar instance findPath(true), stop and   *)
(* setSpeed are called and the Controls start/stop button is pressed in any *)
(* order, while the timers of the suspended invocations fire in any order.  *)
(***************************************************************************)
\* the corridor of the run specification has this many cells
RunCols == 4

\* at most this many findPath invocations are suspended at a time
MaxFrames == 2

\* the speeds given to setSpeed
Speeds == {20, 2000}

\* a corridor with the start at its left end and the end at its right end
InitRun ==
    \E impl \in {"base", "override"} :
        StartsAs(Loaded(GridWith(1, RunCols, <<0, 0>>, <<0, RunCols - 1>>, {}),
                        impl))

FindPath ==
    /\ Len(frames) < MaxFrames
    /\ AfterRun(controls, findPath(Search, TRUE, null, "test"), 0,
                "findPath", <<1>>)

Stop ==
    LET s == stop(Search)
    IN Become([Here EXCEPT !.astar = s.astar,
                           !.last = Op("stop", <<>>, null, "void", null)])

SetSpeed ==
    \E speed \in Speeds :
        LET s == setSpeed(Search, speed)
        IN Become([Here EXCEPT !.astar = s.astar,
                               !.last = Op("setSpeed", <<speed>>, null, "void",
                                           null)])

\* the timer of the i-th suspended invocation fires
Resume ==
    \E i \in DOMAIN frames :
        AfterRun(controls, resume(Search, frames[i]), i, "resume", <<i>>)

\* Controls.stopAlgorithm
stopAlgorithm(st) ==
    [st EXCEPT !.astar.isRunning = FALSE, !.controls.isRunning = FALSE]

\* Controls.handleStart: stopAlgorithm when Controls.isRunning, else
\* startAlgorithm up to the first await of its findPath(true)
HandleStart ==
    IF controls.isRunning
    THEN Become([stopAlgorithm(Here) EXCEPT
                    !.last = Op("handleStart", <<>>, null, "stopped", null)])
    ELSE /\ Len(frames) < MaxFrames
         /\ LET w == resetPathfinding(World)
                c == [controls EXCEPT !.isRunning = TRUE]
            IN AfterRun(c, findPath([Search EXCEPT !.heap = w.heap], TRUE, null,
                                    "controls"),
                        0, "handleStart", <<>>)

NextRun ==
    \/ FindPath
    \/ Stop
    \/ SetSpeed
    \/ Resume
    \/ HandleStart

SpecRun == InitRun /\ [][NextRun]_vars

\* the cells of the current grid shown as path
PathCells == {p \in DOMAIN grid.nodes : heap[grid.nodes[p]].isPath}

\* C4: under any interleaving of findPath(true), stop() and timer
\* resumptions at most one findPath invocation is between its reset and its
\* return (every suspended invocation is); a findPath called after stop()
\* and before the stopped run has resumed starts no second loop.
C4_OneRunAtATime == Len(frames) <= 1

\* C5: when stop() is called while an animated run is suspended, in an
\* exploration delay or a path-reveal delay, the run ends at the resumption
\* of that suspension with null, and shows no further path cell.
C5_StopEndsRun ==
    [][(last.op = "stop" /\ Len(frames) = 1 /\ last'.op = "resume")
         => /\ last'.ret = "returned"
            /\ last'.result = null
            /\ PathCells' = PathCells]_vars

\* C19: a findPath call made while an invocation of the same AStar is
\* suspended returns null at once and changes nothing: the AStar's arrays
\* and counter, every Node's fields and the suspended invocation are as
\* before, so that the run in progress goes on to the result it would have
\* had.
C19_FindPathDuringRunNoOp ==
    [][(frames # <<>> /\ last'.op = "findPath")
         => /\ last'.ret = "returned"
            /\ last'.result = null
            /\ astar' = astar
            /\ heap' = heap
            /\ grid' = grid
            /\ frames' = frames]_vars

\* the delay a suspension at pc uses under speed
DelayFor(pc, speed) == IF pc = "delay" THEN speed ELSE 2 * speed

\* C10: when setSpeed(s) is called while an animated run is suspended, the
\* suspension in progress is not changed, and the suspension that begins
\* when the run goes on uses s (2 * s in the path reveal).
C10_SpeedTakesEffect ==
    [][/\ (Len(frames) = 1 /\ last'.op = "setSpeed") => frames' = frames
       /\ (/\ last.op = "setSpeed"
           /\ Len(frames) = 1
           /\ last'.op = "resume"
           /\ last'.ret = "suspended")
            => frames'[1].ms = DelayFor(frames'[1].pc, last.args[1])]_vars

\* C30: every path a run returns on a grid that is not edited meanwhile is
\* a route: it begins with the start and ends with the end, two consecutive
\* cells of it are orthogonal neighbours, none of its cells is a wall and
\* none occurs twice.
C30_PathIsRoute ==
    (last.ret = "returned" /\ last.result # null)
       => LET path == last.result.path
              at(k) == heap[path[k]]
          IN /\ path # <<>>
             /\ path[1] = grid.startNode
             /\ path[Len(path)] = grid.endNode
             /\ \A k \in 1 .. (Len(path) - 1) :
                   Abs(at(k).row - at(k + 1).row)
                      + Abs(at(k).col - at(k + 1).col) = 1
             /\ \A k \in DOMAIN path : ~at(k).isWall
             /\ \A j, k \in DOMAIN path : path[j] = path[k] => j = k

\* C28: every exploration suspension of an animated run uses a delay between
\* 1 and 1000, whatever values were passed to setSpeed.
C28_DelayInRange ==
    \A i \in DOMAIN frames :
        frames[i].pc = "delay" => frames[i].ms \in 1 .. 1000

\* C32: after stop() is called on a run suspended in an exploration delay,
\* the resumption of the run changes no cell's g, h, f or parent, adds no
\* cell to openSet and marks no further cell as visited.
C32_StoppedRunChangesNothing ==
    [][(/\ last.op = "stop"
        /\ Len(frames) = 1
        /\ frames[1].pc = "delay"
        /\ last'.op = "resume")
         => /\ \A n \in DOMAIN heap :
                  /\ n \in DOMAIN heap'
                  /\ heap'[n].g = heap[n].g
                  /\ heap'[n].h = heap[n].h
                  /\ heap'[n].f = heap[n].f
                  /\ heap'[n].parent = heap[n].parent
                  /\ heap'[n].isVisited = heap[n].isVisited
            /\ Range(astar'.openSet) \subseteq Range(astar.openSet)
            /\ astar'.visitedNodes = astar.visitedNodes]_vars

\* C33: Controls.isRunning is true whenever a findPath invocation that
\* Controls.startAlgorithm awaits has started and not yet returned, so that
\* the start button pressed while the flag is false starts no run over a
\* suspended one.
C33_UiFlagCoversRun ==
    (\E i \in DOMAIN frames : frames[i].caller = "controls")
       => controls.isRunning

(***************************************************************************)
(* The restart specification: an animated run is stopped while it is        *)
(* suspended, findPath(true) is called once more on the same AStar, and the  *)
(* timers of both invocations fire in any order.                            *)
(***************************************************************************)
\* findPath(true) called after stop() while the stopped invocation is still
\* suspended; the frame of this invocation is told apart by its caller
Restart ==
    /\ Len(frames) = 1
    /\ frames[1].caller = "test"
    /\ last.op = "stop"
    /\ AfterRun(controls, findPath(Search, TRUE, null, "restart"), 0,
                "findPath", <<1>>)

NextRestart ==
    \/ (last.op = "new" /\ FindPath)
    \/ (Len(frames) = 1 /\ frames[1].caller = "test" /\ astar.isRunning /\ Stop)
    \/ Resume
    \/ Restart

SpecRestart == InitRun /\ [][NextRestart]_vars

\* C31: a findPath call that follows the stop of a still suspended run
\* returns, at once or at one of its resumptions, what findPath returns on
\* that grid when no other invocation is suspended: null in both cases or
\* the same path.
C31_RestartAsInIsolation ==
    [][LET alone == findPath([Search EXCEPT !.astar = AStar(astar.impl)],
                             FALSE, null, "test").result
           same(r) == IF alone = null THEN r = null
                      ELSE r # null /\ r.path = alone.path
       IN /\ (last'.op = "findPath" /\ last.op = "stop" /\ Len(frames) = 1
                 /\ last'.ret = "returned")
              => same(last'.result)
          /\ (last'.op = "resume" /\ last'.ret = "returned"
                 /\ frames[last'.args[1]].caller = "restart")
              => same(last'.result)]_vars

(***************************************************************************)
(* The input specification: while the Controls start button runs animated  *)
(* searches, the user presses, drags and releases the mouse on cells and    *)
(* loads a grid file of the same dimensions.                               *)
(***************************************************************************)
\* the corridor of the input specification has this many cells
InputCols == 3

InitInput ==
    StartsAs(Loaded(GridWith(1, InputCols, <<0, 0>>, <<0, InputCols - 1>>, {}),
                    "base"))

HandleMouseDown ==
    \E p \in DOMAIN grid.nodes :
        LET w == handleMouseDown(World, p[1], p[2])
        IN AfterGrid(w, "handleMouseDown", p, null, Outcome(w))

HandleMouseEnter ==
    \E p \in DOMAIN grid.nodes :
        LET w == handleMouseEnter(World, p[1], p[2])
        IN AfterGrid(w, "handleMouseEnter", p, null, Outcome(w))

HandleMouseUp ==
    LET w == handleMouseUp(World)
    IN AfterGrid(w, "handleMouseUp", <<>>, null, Outcome(w))

\* the start button pressed when no search is running or suspended:
\* Controls.startAlgorithm up to the first await of its findPath(true)
StartAlgorithm ==
    /\ ~controls.isRunning
    /\ frames = <<>>
    /\ LET w == resetPathfinding(World)
           c == [controls EXCEPT !.isRunning = TRUE]
       IN AfterRun(c, findPath([Search EXCEPT !.heap = w.heap], TRUE, null,
                               "controls"),
                   0, "startAlgorithm", <<>>)

\* the files the user loads: the corridor with a wall in it
FileData ==
    {getGridData(GridWith(1, InputCols, <<0, 0>>, <<0, InputCols - 1>>,
                          {<<0, 1>>}))}

\* NarutoPathfinder.handleFileLoad, the file read and parsed
HandleFileLoad ==
    \E data \in FileData :
        LET r == loadGridData(World, data)
        IN AfterGrid(r.w, "handleFileLoad", <<>>, data, Bool(r.ret))

NextInput ==
    \/ StartAlgorithm
    \/ Resume
    \/ HandleMouseDown
    \/ HandleMouseEnter
    \/ HandleMouseUp
    \/ HandleFileLoad

SpecInput == InitInput /\ [][NextInput]_vars

\* the dimensions of the grid and the isWall, isStart, isEnd of its cells
Layout ==
    [rows |-> grid.rows, cols |-> grid.cols,
     cells |-> [p \in DOMAIN grid.nodes |->
                  LET n == heap[grid.nodes[p]]
                  IN <<n.isWall, n.isStart, n.isEnd>>]]

\* the user's input events
InputOps ==
    {"handleMouseDown", "handleMouseEnter", "handleMouseUp", "handleFileLoad"}

\* C9: while an animated run is in progress (an invocation is suspended), no
\* user input event changes a cell's isWall, isStart or isEnd or the
\* dimensions of the grid.
C9_NoEditDuringRun ==
    [][(frames # <<>> /\ last'.op \in InputOps) => Layout' = Layout]_vars

\* C25: neither resetPathfinding nor any step of a findPath run, animated
\* or not, changes a cell's isWall, isStart, isEnd or weight or the grid's
\* rows, cols, startNode or endNode.
C25_RunKeepsLayout ==
    [][(last'.op \in {"findPath", "findPathAgain", "resume", "resetPathfinding"})
         => /\ Layout' = Layout
            /\ grid'.startNode = grid.startNode
            /\ grid'.endNode = grid.endNode
            /\ grid'.nodes = grid.nodes
            /\ \A n \in DOMAIN heap :
                  n \in DOMAIN heap' /\ heap'[n].weight = heap[n].weight]_vars

\* resetPathfinding has returned on a grid with walls on which a run had
\* found a path around them
C25_Witness ==
    /\ last.op = "resetPathfinding"
    /\ last.args = <<1>>
    /\ WallCells # {}
    /\ Len(astar.path) >= 4
    /\ Len(astar.path) - 1 >
          calculateHeuristic(heap[grid.startNode], heap[grid.endNode])
    /\ astar.visitedNodes # <<>>


(***************************************************************************)
(* The mouse specification: on a constructed Grid of two cells or more the  *)
(* mouse is pressed, moved over cells and released in any order.            *)
(***************************************************************************)
\* the grids have at most this many cells
MouseMaxCells == 4

InitMouse ==
    \E d \in Shapes(MouseMaxCells) :
        /\ d[1] * d[2] >= 2
        /\ StartsAs(Constructed(d[1], d[2], "base"))

NextMouse ==
    \/ HandleMouseDown
    \/ HandleMouseEnter
    \/ HandleMouseUp

SpecMouse == InitMouse /\ [][NextMouse]_vars

\* C35: whatever mouse events a grid of two cells or more gets, one cell is
\* the start and one is the end, grid.startNode and grid.endNode are these
\* two cells, and no cell is two of start, end and wall.
C35_MouseKeepsRoles ==
    /\ \E p \in DOMAIN grid.nodes :
          StartCells = {p} /\ grid.startNode = grid.nodes[p]
    /\ \E p \in DOMAIN grid.nodes :
          EndCells = {p} /\ grid.endNode = grid.nodes[p]
    /\ StartCells \cap EndCells = {}
    /\ WallCells \cap (StartCells \cup EndCells) = {}

\* the start has been dragged away from where the constructor put it, on a
\* grid with a wall
C35_Witness ==
    /\ last.op = "handleMouseEnter"
    /\ grid.currentMode = "start"
    /\ StartCells = {last.args}
    /\ last.args # <<FloorQuarter(grid.rows), FloorQuarter(grid.cols)>>
    /\ WallCells # {}

(***************************************************************************)
(* The edit specification: while a search started by the start button is    *)
(* suspended, the layout is edited through the Grid methods and the reset   *)
(* button.                                                                  *)
(***************************************************************************)
\* the grids have at most this many cells
EditMaxCells == 3

\* and a run sees at most this many grids
EditMaxGrids == 2

\* at most this many edits are made at one suspension point
EditMaxEdits == 1

InitEdit ==
    \E d \in Shapes(EditMaxCells) : StartsAs(Constructed(d[1], d[2], "base"))

\* the grids whose nodes are still referenced
GridsSeen == {r[1] : r \in DOMAIN heap}

\* a Grid method or Controls.handleReset called while the invocation is
\* suspended; last.data counts the edits made at this suspension point
EditLayout ==
    LET edits == IF last.op \in {"findPath", "startAlgorithm", "resume"}
                 THEN 0 ELSE last.data[1]
    IN /\ frames # <<>>
       /\ edits < EditMaxEdits
       /\ \/ \E p \in DOMAIN grid.nodes :
                LET w == [World EXCEPT !.heap[grid.nodes[p]] = toggleWall(@)]
                IN AfterGrid(w, "toggleWall", p, <<edits + 1>>, Outcome(w))
          \/ \E p \in DOMAIN grid.nodes :
                LET w == setStartNode(World, p[1], p[2])
                IN AfterGrid(w, "setStartNode", p, <<edits + 1>>, Outcome(w))
          \/ \E p \in DOMAIN grid.nodes :
                LET w == setEndNode(World, p[1], p[2])
                IN AfterGrid(w, "setEndNode", p, <<edits + 1>>, Outcome(w))
          \/ LET w == clearWalls(World)
             IN AfterGrid(w, "clearWalls", <<>>, <<edits + 1>>, Outcome(w))
          \/ /\ Cardinality(GridsSeen) < EditMaxGrids
             /\ LET w == resetGrid(World)
                IN AfterGrid(w, "resetGrid", <<>>, <<edits + 1>>, Outcome(w))
          \/ /\ Cardinality(GridsSeen) < EditMaxGrids
             /\ LET st == IF controls.isRunning THEN stopAlgorithm(Here)
                          ELSE Here
                    w == resetGrid([grid |-> st.grid, heap |-> st.heap,
                                    threw |-> FALSE])
                IN Become([st EXCEPT
                             !.grid = w.grid, !.heap = w.heap,
                             !.last = Op("handleReset", <<>>, <<edits + 1>>,
                                         Outcome(w), null)])

\* the start button is pressed once, on the grid as constructed
NextEdit ==
    \/ (last.op = "new" /\ StartAlgorithm)
    \/ Tick
    \/ EditLayout

\* the timer of a suspended invocation fires in the end: weak fairness of
\* Tick, whose steps all change the state and which is enabled exactly when
\* one invocation is suspended
SpecEdit ==
    /\ InitEdit
    /\ [][NextEdit]_vars
    /\ ([]<>(Len(frames) # 1) \/ []<><<Tick>>_vars)

\* C29: whatever layout edits happen while an animated run is suspended,
\* no edit and no step of the run raises an exception, closedSet holds no
\* cell twice and at most as many cells as the grids the run has seen have,
\* and the run returns in the end.
C29_EditedRunResolves ==
    /\ [](/\ last.ret # "threw"
          /\ \A i, j \in DOMAIN astar.closedSet :
                 astar.closedSet[i] = astar.closedSet[j] => i = j
          /\ Len(astar.closedSet)
                 <= grid.rows * grid.cols * Cardinality(GridsSeen))
    /\ (frames # <<>> ~> frames = <<>>)

\* a run that was reset while suspended went on into the new grid and
\* returned with cells of both grids in closedSet
C29_Witness ==
    /\ frames = <<>>
    /\ last.op = "resume"
    /\ last.ret = "returned"
    /\ Cardinality({r[1] : r \in Range(astar.closedSet)}) = 2
    /\ Len(astar.closedSet) > grid.rows * grid.cols
====
